---- MODULE Spec2Model ----
(***************************************************************************)
(* docker-prune-plan (src/docker_prune_plan/cli.py): a read-only preview   *)
(* of what the docker prune commands would remove.                         *)
(*                                                                         *)
(* Python strings are sequences of one-character strings, so prefix tests, *)
(* slices and regular-expression matches are computed character by         *)
(* character.  An absent or None field of an engine record is the empty    *)
(* string (the code reads every field as `x.get(k) or ""`), an absent      *)
(* number is 0 (`int(x.get(k) or 0)`).                                     *)
(*                                                                         *)
(* Not modelled: human_size / parse_human_size_to_bytes / render_table     *)
(* (formatting of a finished plan) and the description text of an item     *)
(* other than a build-cache item.                                          *)
(***************************************************************************)
EXTENDS Integers, Sequences, FiniteSets, TLC

VARIABLES
    engine,   \* the Docker engine's resources: what its queries answer
    pc,       \* position of main(): idle, a planner's name, emit, done
    args,     \* the parsed command line: cmd, all, volumes
    plan,     \* the PruneItems collected so far
    total,    \* the running total of reclaimable bytes
    calls,    \* the engine operations issued so far, in order
    closed,   \* client.close() has run
    stdout,   \* what was printed on standard output (<<>>: nothing)
    stderr,   \* the lines printed on standard error
    exit,     \* the exit status (-1 while running)
    sid       \* the short_id harness: input, first and second application

vars == <<engine, pc, args, plan, total, calls, closed, stdout, stderr, exit, sid>>

----------------------------------------------------------------------------
(* Bounds of the model *)

MaxContainers == 2
MaxImages == 2
MaxVolumes == 2
MaxNetworks == 3
MaxCache == 1
MaxPrefixes == 2
MaxBody == 13

(* Constants of the program *)

ShortIdLen == 12
DigestHexLen == 64
AnonMinLen == 32
AnonMaxLen == 64

----------------------------------------------------------------------------
(* Strings *)

Rep(c, n) == [i \in 1..n |-> c]

Min(a, b) == IF a < b THEN a ELSE b

Sha256Prefix == <<"s", "h", "a", "2", "5", "6", ":">>

LowerHex == {"0", "1", "2", "3", "4", "5", "6", "7", "8", "9",
             "a", "b", "c", "d", "e", "f"}

\* str.startswith
startswith(s, p) == Len(s) >= Len(p) /\ SubSeq(s, 1, Len(p)) = p

\* s[:n]
Head_n(s, n) == SubSeq(s, 1, Min(n, Len(s)))

\* s[k:] with k counted from 0
Tail_from(s, k) == SubSeq(s, k + 1, Len(s))

\* re.fullmatch(r"[0-9a-f]{lo,hi}", s) is not None
fullmatch_hex(s, lo, hi) ==
    /\ Len(s) >= lo
    /\ Len(s) <= hi
    /\ \A i \in 1..Len(s) : s[i] \in LowerHex

\* names[0].lstrip("/")
RECURSIVE lstrip_slash(_)
lstrip_slash(s) ==
    IF s # <<>> /\ s[1] = "/" THEN lstrip_slash(Tail(s)) ELSE s

\* ", ".join(tags)
RECURSIVE join_comma(_)
join_comma(tags) ==
    IF tags = <<>> THEN <<>>
    ELSE IF Len(tags) = 1 THEN tags[1]
    ELSE tags[1] \o <<",", " ">> \o join_comma(Tail(tags))

NoneName == <<"<", "n", "o", "n", "e", ">">>

----------------------------------------------------------------------------
(* Identifier helpers *)

\* the prefix is stripped, the remainder returned whole
short_id_untruncated(full_id) ==
    IF full_id = <<>> THEN <<>>
    ELSE IF startswith(full_id, Sha256Prefix)
         THEN Tail_from(full_id, Len(Sha256Prefix))
         ELSE Head_n(full_id, ShortIdLen)

short_id(full_id) ==
    IF full_id = <<>> THEN <<>>
    ELSE LET rest == IF startswith(full_id, Sha256Prefix)
                     THEN Tail_from(full_id, Len(Sha256Prefix))
                     ELSE full_id
         IN  Head_n(rest, ShortIdLen)

normalize_image_id_unprefixed(v) == v

normalize_image_id(v) ==
    IF v = <<>> THEN <<>>
    ELSE IF startswith(v, Sha256Prefix) THEN v ELSE Sha256Prefix \o v

\* re.match in place of re.fullmatch: a hexadecimal prefix is enough
is_probably_anonymous_volume_by_prefix(name) ==
    IF name = <<>> THEN FALSE
    ELSE /\ Len(name) >= AnonMinLen
         /\ \A i \in 1..AnonMinLen : name[i] \in LowerHex

is_probably_anonymous_volume(name) ==
    IF name = <<>> THEN FALSE
    ELSE fullmatch_hex(name, AnonMinLen, AnonMaxLen)

----------------------------------------------------------------------------
(* The engine's answers.  engine is a record of five listings:             *)
(*   containers : [Id, Names, State, ImageID, Image, Mounts, SizeRw]       *)
(*   images     : [Id, RepoTags, Size]                                     *)
(*   volumes    : [Name, HasUsage, UsageSize]                              *)
(*   networks   : [Id, Name, Attached, InspectFails]                       *)
(*   buildCache : [ID, InUse, Size, Description, LastUsedAt]               *)

StoppedStates == {"created", "exited", "dead"}

ReadOnlyOps == {"containers", "images", "networks", "inspect_network", "df"}

\* The engine after serving one operation: the five queries are reads; the
\* prune operations of the same client remove what they name.
EngineAfter(eng, op) ==
    CASE op = "prune_containers" ->
           [eng EXCEPT !.containers =
               SelectSeq(eng.containers, LAMBDA c : c.State \notin StoppedStates)]
      [] op = "prune_volumes" -> [eng EXCEPT !.volumes = <<>>]
      [] op = "prune_images" -> [eng EXCEPT !.images = <<>>]
      [] op = "prune_networks" -> [eng EXCEPT !.networks = <<>>]
      [] op = "prune_builds" -> [eng EXCEPT !.buildCache = <<>>]
      [] OTHER -> eng

RECURSIVE EngineAfterAll(_, _)
EngineAfterAll(eng, ops) ==
    IF ops = <<>> THEN eng
    ELSE EngineAfterAll(EngineAfter(eng, Head(ops)), Tail(ops))

\* client.containers(all=True)
containers_running_only(eng) ==
    SelectSeq(eng.containers, LAMBDA c : c.State = "running")

containers_all(eng) == eng.containers

\* client.containers(all=True, filters={"status": [...]}, size=True)
containers_stopped(eng) ==
    SelectSeq(eng.containers, LAMBDA c : c.State \in StoppedStates)

\* client.images(all=True, filters=img_filters)
images_query(eng, include_all) ==
    IF ~include_all
    THEN SelectSeq(eng.images, LAMBDA im : im.RepoTags = <<>>)
    ELSE eng.images

\* client.networks()
networks_query(eng) == eng.networks

\* client.inspect_network(net_id): the engine's record of that network
inspect_network(eng, net_id) ==
    CHOOSE n \in {eng.networks[i] : i \in 1..Len(eng.networks)} : n.Id = net_id

----------------------------------------------------------------------------
(* Usage reference index *)

collect_used_volumes(containers) ==
    UNION { { c.Mounts[j].Name : j \in { k \in 1..Len(c.Mounts) :
                  c.Mounts[k].Type = "volume" /\ c.Mounts[k].Name # <<>> } }
            : c \in { containers[i] : i \in 1..Len(containers) } }

collect_used_images(containers) ==
    UNION { IF c.ImageID # <<>>
            THEN {normalize_image_id(c.ImageID)}
            ELSE IF c.Image # <<>>
                    /\ (startswith(c.Image, Sha256Prefix)
                        \/ fullmatch_hex(c.Image, DigestHexLen, DigestHexLen))
                 THEN {normalize_image_id(c.Image)}
                 ELSE {}
            : c \in { containers[i] : i \in 1..Len(containers) } }

----------------------------------------------------------------------------
(* Planners.  Each loop body is a step on acc = [plan, total]; a planner   *)
(* folds its step over the listing in the listing's order.                 *)

Item(type, id, name, size) ==
    [item_type |-> type, item_id |-> id, name |-> name, size |-> size]

EmptyAcc == [plan |-> <<>>, total |-> 0]

Add(acc, item, size) ==
    [plan |-> Append(acc.plan, item), total |-> acc.total + size]

container_step(acc, container) ==
    LET name == IF container.Names # <<>>
                THEN lstrip_slash(container.Names[1]) ELSE <<>>
        size == container.SizeRw
    IN  Add(acc, Item("Container", short_id(container.Id), name, size), size)

RECURSIVE container_loop(_, _)
container_loop(acc, stopped) ==
    IF stopped = <<>> THEN acc
    ELSE container_loop(container_step(acc, Head(stopped)), Tail(stopped))

build_plan_container(eng) == container_loop(EmptyAcc, containers_stopped(eng))

image_step_counting_used(acc, image, used_images, include_all) ==
    IF include_all /\ image.Id \in used_images
    THEN [acc EXCEPT !.total = @ + image.Size]
    ELSE LET name == IF image.RepoTags # <<>>
                     THEN join_comma(image.RepoTags) ELSE NoneName
         IN  Add(acc, Item("Image", short_id(image.Id), name, image.Size),
                 image.Size)

image_step(acc, image, used_images, include_all) ==
    IF include_all /\ image.Id \in used_images
    THEN acc
    ELSE LET name == IF image.RepoTags # <<>>
                     THEN join_comma(image.RepoTags) ELSE NoneName
         IN  Add(acc, Item("Image", short_id(image.Id), name, image.Size),
                 image.Size)

RECURSIVE image_loop(_, _, _, _)
image_loop(acc, images, used_images, include_all) ==
    IF images = <<>> THEN acc
    ELSE image_loop(image_step(acc, Head(images), used_images, include_all),
                    Tail(images), used_images, include_all)

build_plan_image(eng, include_all) ==
    image_loop(EmptyAcc, images_query(eng, include_all),
               collect_used_images(containers_all(eng)), include_all)

volume_step(acc, volume, used_volumes, include_all) ==
    LET name == volume.Name
        size == IF volume.HasUsage THEN volume.UsageSize ELSE 0
    IN  IF name = <<>> \/ name \in used_volumes THEN acc
        ELSE IF ~include_all /\ ~is_probably_anonymous_volume(name) THEN acc
        ELSE Add(acc, Item("Volume", name, name, size), size)

RECURSIVE volume_loop(_, _, _, _)
volume_loop(acc, volumes, used_volumes, include_all) ==
    IF volumes = <<>> THEN acc
    ELSE volume_loop(volume_step(acc, Head(volumes), used_volumes, include_all),
                     Tail(volumes), used_volumes, include_all)

\* system_mode only selects the description text, which is not modelled
build_plan_volume(eng, include_all, system_mode) ==
    volume_loop(EmptyAcc, eng.volumes,
                collect_used_volumes(containers_all(eng)), include_all)

ReservedNetworks == {<<"b", "r", "i", "d", "g", "e">>, <<"h", "o", "s", "t">>,
                     <<"n", "o", "n", "e">>}

\* total stays as it is: the loop never adds to it
AddNetwork(acc, net) ==
    [acc EXCEPT !.plan = Append(@, Item("Network", short_id(net.Id), net.Name, 0))]

network_step_lists_failed(acc, net, eng) ==
    IF net.Name \in ReservedNetworks THEN acc
    ELSE LET info == inspect_network(eng, net.Id)
         IN  IF ~info.InspectFails /\ info.Attached > 0 THEN acc
             ELSE AddNetwork(acc, net)

network_step(acc, net, eng) ==
    IF net.Name \in ReservedNetworks THEN acc
    ELSE LET info == inspect_network(eng, net.Id)
         IN  IF info.InspectFails THEN acc
             ELSE IF info.Attached > 0 THEN acc
             ELSE AddNetwork(acc, net)

RECURSIVE network_loop(_, _, _)
network_loop(acc, networks, eng) ==
    IF networks = <<>> THEN acc
    ELSE network_loop(network_step(acc, Head(networks), eng), Tail(networks), eng)

build_plan_network(eng) == network_loop(EmptyAcc, networks_query(eng), eng)

\* the engine operations build_plan_network issues: the listing, then one
\* inspection per network that is not reserved
RECURSIVE network_calls(_)
network_calls(networks) ==
    IF networks = <<>> THEN <<>>
    ELSE (IF Head(networks).Name \in ReservedNetworks
          THEN <<>> ELSE <<"inspect_network">>) \o network_calls(Tail(networks))

\* "; ".join(parts)
RECURSIVE join_semicolon(_)
join_semicolon(parts) ==
    IF parts = <<>> THEN <<>>
    ELSE IF Len(parts) = 1 THEN parts[1]
    ELSE parts[1] \o <<";", " ">> \o join_semicolon(Tail(parts))

\* f"Last used: {last_used}"
last_used_text(last_used) ==
    <<"L", "a", "s", "t", " ", "u", "s", "e", "d", ":", " ">> \o last_used

\* "; ".join([p for p in [desc, f"Last used: {last_used}"] if p])
build_cache_info(desc, last_used) ==
    join_semicolon(SelectSeq(<<desc, last_used_text(last_used)>>,
                             LAMBDA p : p # <<>>))

\* a build-cache item carries its description text
build_cache_step(acc, entry) ==
    IF entry.InUse THEN acc
    ELSE Add(acc, Item("BuildCache", short_id(entry.ID), entry.Description,
                       entry.Size)
                    @@ [description |->
                          build_cache_info(entry.Description, entry.LastUsedAt)],
             entry.Size)

RECURSIVE build_cache_loop(_, _)
build_cache_loop(acc, entries) ==
    IF entries = <<>> THEN acc
    ELSE build_cache_loop(build_cache_step(acc, Head(entries)), Tail(entries))

build_plan_build_cache(eng) == build_cache_loop(EmptyAcc, eng.buildCache)

----------------------------------------------------------------------------
(* main(): the subcommand, then the planners in build_plan_system's order  *)

Cmds == {"container", "network", "image", "volume", "system"}

\* the flags each subparser defines; an undefined flag is FALSE
ArgSets ==
    { a \in [cmd : Cmds, all : BOOLEAN, volumes : BOOLEAN] :
        /\ a.cmd \in {"container", "network"} => ~a.all
        /\ a.cmd # "system" => ~a.volumes }

NoArgs == [cmd |-> "none", all |-> FALSE, volumes |-> FALSE]

FirstStage(cmd) == IF cmd = "system" THEN "container" ELSE cmd

NextStage_images_first(cmd, stage, include_volumes) ==
    IF cmd # "system" THEN "emit"
    ELSE CASE stage = "container" -> "image"
           [] stage = "image" -> "network"
           [] stage = "network" ->
                IF include_volumes THEN "volume" ELSE "build_cache"
           [] stage = "volume" -> "build_cache"
           [] OTHER -> "emit"

NextStage(cmd, stage, include_volumes) ==
    IF cmd # "system" THEN "emit"
    ELSE CASE stage = "container" -> "network"
           [] stage = "network" -> "image"
           [] stage = "image" ->
                IF include_volumes THEN "volume" ELSE "build_cache"
           [] stage = "volume" -> "build_cache"
           [] OTHER -> "emit"

\* plan.extend(items); total += t
extend(p, t, acc) == [plan |-> p \o acc.plan, total |-> t + acc.total]

\* except DockerException: one line on stderr, sys.exit(1); nothing printed
docker_error_prints_partial(p, t) ==
    [stdout |-> <<[format |-> "table", items |-> p, total |-> t]>>,
     stderr |-> <<"Docker error">>, exit |-> 1]

docker_error(p, t) ==
    [stdout |-> <<>>, stderr |-> <<"Docker error">>, exit |-> 1]

\* the printed plan: json.dumps(out) or render_table + the total line
Output(cmd, p, t, json, name) ==
    IF json
    THEN [format |-> "json", command |-> cmd, items |-> p, total |-> t,
          exclude_columns |-> {}]
    ELSE [format |-> "table", command |-> cmd, items |-> p, total |-> t,
          exclude_columns |-> IF cmd = "system" /\ ~name THEN {"NAME"} ELSE {}]

\* the operations a planner issues that end the invocation when they fail
queries_with_prune(stage) ==
    CASE stage = "container" -> <<"containers", "prune_containers">>
      [] stage = "network" -> <<"networks">>
      [] stage = "image" -> <<"containers", "images">>
      [] stage = "volume" -> <<"containers", "df">>
      [] OTHER -> <<"df">>

queries(stage) ==
    CASE stage = "container" -> <<"containers">>
      [] stage = "network" -> <<"networks">>
      [] stage = "image" -> <<"containers", "images">>
      [] stage = "volume" -> <<"containers", "df">>
      [] OTHER -> <<"df">>

\* what the planner of a stage returns when every query answers
planned(stage, eng, a) ==
    CASE stage = "container" -> build_plan_container(eng)
      [] stage = "network" -> build_plan_network(eng)
      [] stage = "image" -> build_plan_image(eng, a.all)
      [] stage = "volume" ->
           IF a.cmd = "system" THEN build_plan_volume(eng, FALSE, TRUE)
           ELSE build_plan_volume(eng, a.all, FALSE)
      [] OTHER -> build_plan_build_cache(eng)

NoSid == [step |-> 0, x |-> <<>>, once |-> <<>>, twice |-> <<>>]

\* parse_args, then docker.APIClient(...): a failed connection ends main()
Start ==
    /\ pc = "idle"
    /\ \E a \in ArgSets, connected \in BOOLEAN :
         /\ args' = a
         /\ IF connected
            THEN /\ pc' = FirstStage(a.cmd)
                 /\ UNCHANGED <<stderr, exit>>
            ELSE /\ pc' = "done"
                 /\ stderr' = Append(stderr, "Error connecting to Docker")
                 /\ exit' = 1
    /\ UNCHANGED <<engine, plan, total, calls, closed, stdout, sid>>

\* one planner answers: its items and total are taken over
Answer(stage) ==
    /\ LET ops == queries(stage)
              \o (IF stage = "network"
                  THEN network_calls(networks_query(engine)) ELSE <<>>)
           r == extend(plan, total, planned(stage, engine, args))
       IN  /\ calls' = calls \o ops
           /\ engine' = EngineAfterAll(engine, ops)
           /\ plan' = r.plan
           /\ total' = r.total
    /\ pc' = NextStage(args.cmd, stage, args.volumes)
    /\ closed' = (pc' = "emit")
    /\ UNCHANGED <<args, stdout, stderr, exit, sid>>

\* the k-th query of a planner raises DockerException
Raise(stage) ==
    /\ \E k \in 1..Len(queries(stage)) :
         LET ops == SubSeq(queries(stage), 1, k)
             r == docker_error(plan, total)
         IN  /\ calls' = calls \o ops
             /\ engine' = EngineAfterAll(engine, ops)
             /\ stdout' = r.stdout
             /\ stderr' = stderr \o r.stderr
             /\ exit' = r.exit
    /\ pc' = "done"
    /\ closed' = TRUE
    /\ UNCHANGED <<args, plan, total, sid>>

\* the plan is printed, as JSON or as a table
Emit ==
    /\ pc = "emit"
    /\ \E json \in BOOLEAN, name \in BOOLEAN :
         stdout' = <<Output(args.cmd, plan, total, json, name)>>
    /\ exit' = 0
    /\ pc' = "done"
    /\ UNCHANGED <<engine, args, plan, total, calls, closed, stderr, sid>>

PlanContainer ==
    /\ pc = "container"
    /\ (Answer("container") \/ Raise("container"))

PlanNetwork ==
    /\ pc = "network"
    /\ (Answer("network") \/ Raise("network"))

PlanImage ==
    /\ pc = "image"
    /\ (Answer("image") \/ Raise("image"))

PlanVolume ==
    /\ pc = "volume"
    /\ (Answer("volume") \/ Raise("volume"))

PlanBuildCache ==
    /\ pc = "build_cache"
    /\ (Answer("build_cache") \/ Raise("build_cache"))

----------------------------------------------------------------------------
(* The engine snapshots the model starts from.  One family per resource    *)
(* kind: that kind's listing ranges over sequences drawn from its pool,    *)
(* the other listings are those of BaseEngine.                             *)

Data1 == <<"d", "a", "t", "a", "1">>
MyVol == <<"m", "y", "v", "o", "l">>
Nginx == <<"n", "g", "i", "n", "x">>
Web == <<"/", "w", "e", "b">>
Ha == Rep("a", DigestHexLen)
Hb == Rep("b", DigestHexLen)
HUpper == Rep("A", DigestHexLen)

Mount(type, name) == [Type |-> type, Name |-> name]

IdChars == <<"1", "2", "3", "4", "5", "6", "7", "8", "9">>

\* the i-th container of a listing: its Id is its own
Container(i, kind) ==
    [Id |-> Rep(IdChars[i], DigestHexLen), Names |-> kind.Names,
     State |-> kind.State, ImageID |-> kind.ImageID, Image |-> kind.Image,
     Mounts |-> kind.Mounts, SizeRw |-> kind.SizeRw]

Kind(state, imageId, image, mounts, sizeRw, names) ==
    [State |-> state, ImageID |-> imageId, Image |-> image, Mounts |-> mounts,
     SizeRw |-> sizeRw, Names |-> names]

BaseKind == Kind("exited", Sha256Prefix \o Ha, Nginx,
                 <<Mount("volume", Data1)>>, 5, <<Web>>)

\* how a container may name its image
ImageRefKinds ==
    { Kind("running", Ha, Nginx, <<>>, 0, <<Web>>),
      Kind("exited", Sha256Prefix \o Ha, Nginx, <<>>, 2, <<>>),
      Kind("running", <<>>, Ha, <<>>, 0, <<Web>>),
      Kind("created", <<>>, Sha256Prefix \o Ha, <<>>, 0, <<Web>>),
      Kind("running", <<>>, HUpper, <<>>, 0, <<Web>>),
      Kind("exited", <<>>, Nginx, <<>>, 1, <<Web>>) }

\* what a container may mount
MountKinds ==
    { Kind("running", Sha256Prefix \o Ha, Nginx, <<Mount("volume", Data1)>>, 0, <<Web>>),
      Kind("exited", Sha256Prefix \o Ha, Nginx, <<Mount("volume", Rep("c", 32))>>, 3, <<Web>>),
      Kind("running", Sha256Prefix \o Ha, Nginx, <<Mount("bind", Data1)>>, 0, <<Web>>),
      Kind("dead", Sha256Prefix \o Ha, Nginx,
           <<Mount("bind", Rep("c", 64)), Mount("volume", MyVol)>>, 0, <<Web>>) }

Image(id, tags, size) == [Id |-> id, RepoTags |-> tags, Size |-> size]

ImagePool ==
    { Image(Sha256Prefix \o Ha, <<Nginx, Web>>, 7),
      Image(Sha256Prefix \o HUpper, <<>>, 3),
      Image(Sha256Prefix \o Hb, <<>>, 5) }

Volume(name, hasUsage, size) ==
    [Name |-> name, HasUsage |-> hasUsage, UsageSize |-> size]

VolumePool ==
    { Volume(Data1, TRUE, 4),
      Volume(MyVol, TRUE, 6),
      Volume(Rep("c", 31), TRUE, 1),
      Volume(Rep("c", 32), FALSE, 0),
      Volume(Rep("c", 64), TRUE, -1),
      Volume(Rep("c", 65), TRUE, 2),
      Volume(Rep("C", 32), TRUE, 8) }

Network(id, name, attached, fails) ==
    [Id |-> id, Name |-> name, Attached |-> attached, InspectFails |-> fails]

Bridge == <<"b", "r", "i", "d", "g", "e">>
Host == <<"h", "o", "s", "t">>
Ingress == <<"i", "n", "g", "r", "e", "s", "s">>
Net(c) == <<"n", "e", "t", c>>

NetworkPool ==
    { Network(Rep("1", 64), Bridge, 1, FALSE),
      Network(Rep("2", 64), Host, 0, FALSE),
      Network(Rep("3", 64), Ingress, 0, FALSE),
      Network(Rep("4", 64), Net("1"), 0, FALSE),
      Network(Rep("5", 64), Net("2"), 0, TRUE),
      Network(Rep("6", 64), Net("3"), 1, FALSE),
      Network(Rep("7", 64), Net("4"), 0, FALSE) }

CacheEntry(id, inUse, size, description, lastUsedAt) ==
    [ID |-> id, InUse |-> inUse, Size |-> size, Description |-> description,
     LastUsedAt |-> lastUsedAt]

CachePool ==
    { CacheEntry(Rep("x", 25), TRUE, 9, <<"R", "U", "N">>, <<"2", "0", "2", "4">>),
      CacheEntry(Rep("y", 25), FALSE, 9, <<"R", "U", "N">>, <<>>),
      CacheEntry(Rep("z", 25), FALSE, 0, <<>>, <<"2", "0", "2", "4">>),
      CacheEntry(Rep("w", 25), FALSE, 4, <<"R", "U", "N">>, <<"2", "0", "2", "4">>),
      CacheEntry(Rep("v", 25), FALSE, 0, <<>>, <<>>) }

BaseEngine ==
    [containers |-> <<Container(1, BaseKind)>>,
     images |-> <<Image(Sha256Prefix \o Hb, <<>>, 5)>>,
     volumes |-> <<Volume(Rep("c", 32), TRUE, 4)>>,
     networks |-> <<Network(Rep("4", 64), Net("1"), 0, FALSE)>>,
     buildCache |-> <<CacheEntry(Rep("y", 25), FALSE, 9, <<"R", "U", "N">>, <<>>)>>]

\* listings of at most n records of S
Listings(S, n) == UNION { [1..k -> S] : k \in 0..n }

\* the same, no record twice
Distinct(S, n) ==
    { l \in Listings(S, n) : \A i, j \in 1..Len(l) : l[i] = l[j] => i = j }

ContainersOf(kinds) ==
    { [i \in 1..Len(l) |-> Container(i, l[i])] : l \in Listings(kinds, MaxContainers) }

ImageEngines ==
    { [BaseEngine EXCEPT !.containers = cs, !.images = is] :
        cs \in ContainersOf(ImageRefKinds), is \in Distinct(ImagePool, MaxImages) }

VolumeEngines ==
    { [BaseEngine EXCEPT !.containers = cs, !.volumes = vs] :
        cs \in ContainersOf(MountKinds), vs \in Distinct(VolumePool, MaxVolumes) }

NetworkEngines ==
    { [BaseEngine EXCEPT !.networks = ns] : ns \in Distinct(NetworkPool, MaxNetworks) }

CacheEngines ==
    { [BaseEngine EXCEPT !.buildCache = bs] : bs \in Distinct(CachePool, MaxCache) }

InitWith(engines) ==
    /\ engine \in engines
    /\ pc = "idle"
    /\ args = NoArgs
    /\ plan = <<>>
    /\ total = 0
    /\ calls = <<>>
    /\ closed = FALSE
    /\ stdout = <<>>
    /\ stderr = <<>>
    /\ exit = -1
    /\ sid = NoSid

Init == InitWith(ImageEngines \cup VolumeEngines \cup NetworkEngines \cup CacheEngines)

Next ==
    \/ Start
    \/ PlanContainer
    \/ PlanNetwork
    \/ PlanImage
    \/ PlanVolume
    \/ PlanBuildCache
    \/ Emit

Spec == Init /\ [][Next]_vars

----------------------------------------------------------------------------
(* short_id on its own: an identifier is drawn, short_id is applied to it, *)
(* then to its own result.                                                 *)

RECURSIVE Prefixes(_)
Prefixes(k) == IF k = 0 THEN <<>> ELSE Sha256Prefix \o Prefixes(k - 1)

ShortIdInputs ==
    { Prefixes(k) \o Rep(c, n) : k \in 0..MaxPrefixes, c \in {"a", ":"}, n \in 0..MaxBody }

InitShortId ==
    /\ engine = BaseEngine
    /\ pc = "short_id"
    /\ args = NoArgs
    /\ plan = <<>>
    /\ total = 0
    /\ calls = <<>>
    /\ closed = FALSE
    /\ stdout = <<>>
    /\ stderr = <<>>
    /\ exit = -1
    /\ \E x \in ShortIdInputs : sid = [NoSid EXCEPT !.x = x]

ShortIdOnce ==
    /\ pc = "short_id"
    /\ sid.step = 0
    /\ sid' = [sid EXCEPT !.step = 1, !.once = short_id(sid.x)]
    /\ UNCHANGED <<engine, pc, args, plan, total, calls, closed, stdout, stderr, exit>>

ShortIdTwice ==
    /\ pc = "short_id"
    /\ sid.step = 1
    /\ sid' = [sid EXCEPT !.step = 2, !.twice = short_id(sid.once)]
    /\ UNCHANGED <<engine, pc, args, plan, total, calls, closed, stdout, stderr, exit>>

NextShortId == ShortIdOnce \/ ShortIdTwice

SpecShortId == InitShortId /\ [][NextShortId]_vars

----------------------------------------------------------------------------
(* Properties *)

Elems(l) == { l[i] : i \in 1..Len(l) }

\* the plan that was printed, if any
Printed == IF stdout = <<>> THEN <<>> ELSE stdout[1].items

\* the candidates of one type, as the planner named them
PlannedNames(type) == { it.name : it \in { x \in Elems(plan) : x.item_type = type } }
PlannedIds(type) == { it.item_id : it \in { x \in Elems(plan) : x.item_type = type } }

\* the names of the volume mounts of all containers of the engine
MountedVolumeNames ==
    { m.Name : m \in { x \in UNION { Elems(c.Mounts) : c \in Elems(engine.containers) } :
                          x.Type = "volume" } }

\* C1: a volume whose name is the Name of a volume mount of any container,
\* running or stopped, is never among the Volume candidates, in any mode
\* (volume, volume --all, system --volumes).
C1_MountedVolumeNeverPlanned ==
    \A it \in Elems(plan) \cup Elems(Printed) :
        it.item_type = "Volume" => it.name \notin MountedVolumeNames

\* a finished volume --all plan over an engine holding a volume mounted by a
\* stopped container, next to one that is listed
C1_Witness ==
    /\ pc = "done" /\ exit = 0 /\ args.cmd = "volume" /\ args.all
    /\ \E c \in Elems(engine.containers), v \in Elems(engine.volumes) :
         /\ c.State \in StoppedStates
         /\ \E m \in Elems(c.Mounts) : m.Type = "volume" /\ m.Name = v.Name
    /\ Printed # <<>>

UpperHex == {"A", "B", "C", "D", "E", "F"}

\* s is n hexadecimal characters, of either case
IsHexString(s, n) == Len(s) = n /\ \A i \in 1..n : s[i] \in LowerHex \cup UpperHex

IsLowerHexString(s) == \A i \in 1..Len(s) : s[i] \in LowerHex

\* the image planner ran with includeAll=true, or has not run
ImagesAllMode == args.all /\ args.cmd \in {"image", "system"}

\* some container names the image sha256:h as C2 says: by image-id h or
\* sha256:h, or with an empty image-id by image-name h or sha256:h
ReferencedAsClaimed(h) ==
    \E c \in Elems(engine.containers) :
        \/ c.ImageID \in {h, Sha256Prefix \o h}
        \/ c.ImageID = <<>> /\ c.Image \in {h, Sha256Prefix \o h}

\* the same, a bare image-name counting only when it is lowercase
ReferencedAsAmended(h) ==
    \E c \in Elems(engine.containers) :
        \/ c.ImageID \in {h, Sha256Prefix \o h}
        \/ c.ImageID = <<>> /\ c.Image = Sha256Prefix \o h
        \/ c.ImageID = <<>> /\ c.Image = h /\ IsLowerHexString(h)

\* C2 as stated: with includeAll=true no image sha256:H (H any 64
\* hexadecimal characters) that a container references by image-id H or
\* sha256:H, or by image-name H or sha256:H with an empty image-id, is
\* among the Image candidates.
C2_AsStated ==
    ImagesAllMode =>
        \A im \in Elems(engine.images) :
            (/\ startswith(im.Id, Sha256Prefix)
             /\ IsHexString(Tail_from(im.Id, 7), 64)
             /\ ReferencedAsClaimed(Tail_from(im.Id, 7)))
            => short_id(im.Id) \notin PlannedIds("Image")

\* C2 amended: the same, where an image-name that is the bare H (no sha256:
\* prefix) counts as a reference only when H is lowercase hexadecimal.
C2_ReferencedImageNeverPlanned ==
    ImagesAllMode =>
        \A im \in Elems(engine.images) :
            (/\ startswith(im.Id, Sha256Prefix)
             /\ IsHexString(Tail_from(im.Id, 7), 64)
             /\ ReferencedAsAmended(Tail_from(im.Id, 7)))
            => short_id(im.Id) \notin PlannedIds("Image")

\* a finished image --all plan: an image referenced only through the bare
\* image-name of a container without image-id is left out, another is listed
C2_Witness ==
    /\ pc = "done" /\ exit = 0 /\ args.cmd = "image" /\ args.all
    /\ \E im \in Elems(engine.images) :
         /\ im.Id = Sha256Prefix \o Ha
         /\ \A c \in Elems(engine.containers) : c.ImageID = <<>> /\ c.Image = Ha
         /\ engine.containers # <<>>
         /\ short_id(im.Id) \notin PlannedIds("Image")
    /\ PlannedIds("Image") # {}

RECURSIVE SumSizes(_)
SumSizes(items) ==
    IF items = <<>> THEN 0 ELSE Head(items).size + SumSizes(Tail(items))

\* C3: the total of every planner, and of the system plan, is the sum of
\* the sizes of the candidates of its list, each counted once: at every
\* point of the accumulation and in what is printed.
C3_TotalIsSumOfSizes ==
    /\ total = SumSizes(plan)
    /\ stdout # <<>> => stdout[1].total = SumSizes(stdout[1].items)

\* a printed system plan of all five kinds with a positive total, over an
\* engine that also holds an image left out because a container uses it
C3_Witness ==
    /\ pc = "done" /\ exit = 0 /\ args.cmd = "system" /\ args.all /\ args.volumes
    /\ \A t \in {"Container", "Network", "Image", "Volume", "BuildCache"} :
         \E it \in Elems(Printed) : it.item_type = t
    /\ \E im \in Elems(engine.images) :
         im.Size > 0 /\ im.Id \in collect_used_images(engine.containers)
    /\ stdout[1].total > 0

\* the volume planner ran to its end with this includeAll
VolumesPlanned ==
    /\ stdout # <<>>
    /\ args.cmd = "volume" \/ (args.cmd = "system" /\ args.volumes)

VolumesIncludeAll == args.cmd = "volume" /\ args.all

\* 32 to 64 characters, each one of 0-9 a-f
IsAnonymousName(s) ==
    /\ Len(s) \in 32..64
    /\ \A i \in 1..Len(s) :
         s[i] \in {"0", "1", "2", "3", "4", "5", "6", "7", "8", "9",
                   "a", "b", "c", "d", "e", "f"}

\* C4: a volume with a non-empty name that no container mounts is a
\* candidate, with includeAll=false (also in system --volumes), exactly when
\* its name is 32 to 64 lowercase hexadecimal characters, and always with
\* includeAll=true.
C4_UnreferencedVolumeCandidacy ==
    VolumesPlanned =>
        \A v \in Elems(engine.volumes) :
            (v.Name # <<>> /\ v.Name \notin MountedVolumeNames) =>
                (v.Name \in PlannedNames("Volume")
                   <=> (VolumesIncludeAll \/ IsAnonymousName(v.Name)))

\* myvol, unreferenced, is left out of a default volume plan that lists a
\* 32-character hexadecimal name
C4_Witness ==
    /\ VolumesPlanned /\ ~VolumesIncludeAll /\ pc = "done"
    /\ MyVol \in { v.Name : v \in Elems(engine.volumes) } \ MountedVolumeNames
    /\ MyVol \notin PlannedNames("Volume")
    /\ Rep("c", 32) \in PlannedNames("Volume")

\* myvol, unreferenced, is listed with includeAll=true
C4_WitnessAll ==
    /\ VolumesPlanned /\ VolumesIncludeAll /\ pc = "done"
    /\ MyVol \in { v.Name : v \in Elems(engine.volumes) } \ MountedVolumeNames
    /\ MyVol \in PlannedNames("Volume")

KindRank(t) ==
    CASE t = "Container" -> 1
      [] t = "Network" -> 2
      [] t = "Image" -> 3
      [] t = "Volume" -> 4
      [] OTHER -> 5

OfType(items, t) == SelectSeq(items, LAMBDA it : it.item_type = t)

\* C5: the printed system plan is the Container, Network, Image, Volume and
\* Build-Cache planners' lists in this order, each list as its planner
\* returns it for this engine; the Volume part is the Volume planner's
\* (includeAll=false, systemMode=true) when --volumes was given, and empty
\* otherwise, whatever the Volume planner alone would return.
C5_SystemPlanIsConcatenation ==
    (stdout # <<>> /\ args.cmd = "system") =>
        LET items == stdout[1].items
        IN  /\ \A i, j \in 1..Len(items) :
                 i < j => KindRank(items[i].item_type) <= KindRank(items[j].item_type)
            /\ OfType(items, "Container") = build_plan_container(engine).plan
            /\ OfType(items, "Network") = build_plan_network(engine).plan
            /\ OfType(items, "Image") = build_plan_image(engine, args.all).plan
            /\ OfType(items, "Volume") =
                 (IF args.volumes THEN build_plan_volume(engine, FALSE, TRUE).plan
                  ELSE <<>>)
            /\ OfType(items, "BuildCache") = build_plan_build_cache(engine).plan
            /\ Len(items) = Len(OfType(items, "Container")) + Len(OfType(items, "Network"))
                 + Len(OfType(items, "Image")) + Len(OfType(items, "Volume"))
                 + Len(OfType(items, "BuildCache"))

\* a printed system plan without --volumes, of the four other kinds, over an
\* engine for which the default Volume planner alone returns a candidate
C5_Witness ==
    /\ pc = "done" /\ stdout # <<>> /\ args.cmd = "system" /\ ~args.volumes
    /\ build_plan_volume(engine, FALSE, FALSE).plan # <<>>
    /\ \A t \in {"Container", "Network", "Image", "BuildCache"} :
         \E it \in Elems(Printed) : it.item_type = t
    /\ Len(OfType(Printed, "Network")) >= 2

\* a printed system plan with --volumes holding a Volume candidate between
\* an Image and a BuildCache candidate
C5_WitnessVolumes ==
    /\ pc = "done" /\ stdout # <<>> /\ args.cmd = "system" /\ args.volumes
    /\ \E i, j, k \in 1..Len(Printed) :
         /\ i < j /\ j < k
         /\ Printed[i].item_type = "Image"
         /\ Printed[j].item_type = "Volume"
         /\ Printed[k].item_type = "BuildCache"

\* the network planner ran to its end
NetworksPlanned ==
    /\ \E i \in 1..Len(calls) : calls[i] = "networks"
    /\ ~(exit = 1 /\ calls[Len(calls)] = "networks")

ClaimedReserved == {Bridge, Host, <<"n", "o", "n", "e">>, Ingress}

\* C6: once the network planner has run, no network whose inspection fails
\* is in the plan, every network not named bridge, host, none or ingress
\* whose inspection answers with no attached container is in it, wherever
\* it stands in the listing, and no invocation ends in an error on a
\* network inspection.
C6_InspectFailureIsSkipped ==
    /\ NetworksPlanned =>
         \A n \in Elems(engine.networks) :
            /\ n.InspectFails => n.Name \notin PlannedNames("Network")
            /\ (n.Name \notin ClaimedReserved /\ ~n.InspectFails /\ n.Attached = 0)
                 => n.Name \in PlannedNames("Network")
    /\ (exit = 1 /\ calls # <<>>) => calls[Len(calls)] # "inspect_network"
    /\ (pc = "done" /\ exit = 0) => stderr = <<>>

\* a printed network plan over three networks, the failing one second: the
\* first and the third are listed
C6_Witness ==
    /\ pc = "done" /\ exit = 0 /\ args.cmd = "network" /\ Len(engine.networks) = 3
    /\ engine.networks[2].InspectFails
    /\ Len(Printed) = 2
    /\ << engine.networks[1].Name, engine.networks[3].Name >>
         = << Printed[1].name, Printed[2].name >>

\* C7: no network named bridge, host, none or ingress is ever a Network
\* candidate, in the network plan or the system plan.
C7_ReservedNetworkNeverPlanned ==
    \A it \in Elems(plan) \cup Elems(Printed) :
        it.item_type = "Network" => it.name \notin ClaimedReserved

\* C8: every operation issued to the engine is a container listing, an image
\* listing, a network listing, a network inspection or a disk-usage report,
\* and no step of any subcommand, answered or failed, changes the engine's
\* containers, images, volumes, networks or build-cache entries.
C8_EngineIsNeverChanged ==
    /\ [](\A i \in 1..Len(calls) : calls[i] \in ReadOnlyOps)
    /\ [][engine' = engine]_vars

\* a system --volumes invocation that ended after all its queries, over an
\* engine holding a stopped container
C8_Witness ==
    /\ pc = "done" /\ args.cmd = "system" /\ args.volumes /\ exit = 0
    /\ \E c \in Elems(engine.containers) : c.State \in StoppedStates
    /\ {"containers", "images", "networks", "inspect_network", "df"}
         \subseteq Elems(calls)

PlannerStages == {"container", "network", "image", "volume", "build_cache"}

\* C9: an invocation that ends inside a planner (a query other than a network
\* inspection failed) ends with exit status 1, exactly one line on standard
\* error and nothing on standard output, also when earlier planners of a
\* system plan have candidates collected; no state has exit status 1 and a
\* printed plan.
C9_FailureEmitsNoPlan ==
    /\ [][(pc \in PlannerStages /\ pc' = "done")
            => (exit' = 1 /\ stdout' = <<>> /\ Len(stderr') = 1)]_vars
    /\ [](exit = 1 => (stdout = <<>> /\ Len(stderr) = 1))
    /\ [](stdout # <<>> => (exit = 0 /\ stderr = <<>>))

\* a system plan that failed at the disk-usage report of the build-cache
\* planner, with candidates of the earlier planners collected
C9_Witness ==
    /\ pc = "done" /\ exit = 1 /\ args.cmd = "system" /\ stdout = <<>>
    /\ Len(plan) >= 3
    /\ Len(calls) >= 2
    /\ calls[Len(calls)] = "df" /\ calls[Len(calls) - 1] # "containers"

\* C10 as stated: short_id returns at most 12 characters and applying it to
\* its own result changes nothing, for every string.
C10_AsStated ==
    /\ sid.step >= 1 => Len(sid.once) <= 12
    /\ sid.step = 2 => sid.twice = sid.once

\* C10 amended: short_id returns at most 12 characters for every string, and
\* applying it to its own result changes nothing for every string that does
\* not start with "sha256:sha256:".
C10_ShortIdBoundedIdempotent ==
    /\ sid.step >= 1 => Len(sid.once) <= 12
    /\ (sid.step = 2 /\ ~startswith(sid.x, Sha256Prefix \o Sha256Prefix))
         => sid.twice = sid.once

\* short_id applied twice to a prefixed identifier longer than 12 characters
C10_Witness ==
    /\ sid.step = 2
    /\ startswith(sid.x, Sha256Prefix)
    /\ Len(sid.x) > 7 + 12
    /\ Len(sid.once) = 12
    /\ sid.twice = sid.once

\* In a system plan the first operation issued is build_plan_container's
\* own listing, filtered by status; every later "containers" operation is
\* a full listing, client.containers(all=True).
FullListingsRequested ==
    Cardinality({ i \in 2..Len(calls) : calls[i] = "containers" })

DiskUsageReportsRequested ==
    Cardinality({ i \in 1..Len(calls) : calls[i] = "df" })

\* C11: during one system plan the full container listing and the
\* disk-usage report are each requested at most once, the planners sharing
\* the one answer.
C11_SnapshotQueriedOnce ==
    args.cmd = "system" =>
        (FullListingsRequested <= 1 /\ DiskUsageReportsRequested <= 1)

\* the two halves of C11, each on its own
C11_FullListingOnce == args.cmd = "system" => FullListingsRequested <= 1

C11_DiskUsageOnce == args.cmd = "system" => DiskUsageReportsRequested <= 1

\* without --volumes each of the two is requested once
C11_OnceWithoutVolumes ==
    (args.cmd = "system" /\ ~args.volumes) =>
        (FullListingsRequested <= 1 /\ DiskUsageReportsRequested <= 1)

\* with --volumes a finished system plan has requested each of them twice
C11_TwiceWithVolumes ==
    (args.cmd = "system" /\ args.volumes /\ stdout # <<>>) =>
        (FullListingsRequested = 2 /\ DiskUsageReportsRequested = 2)

LastUsedClause(ts) ==
    <<"L", "a", "s", "t", " ", "u", "s", "e", "d", ":", " ">> \o ts

\* the description C12 states: the description field and the clause
\* "Last used: <timestamp>" joined with "; ", a side left out when its
\* field is empty
ClaimedCacheInfo(desc, ts) ==
    IF desc # <<>> /\ ts # <<>> THEN desc \o <<";", " ">> \o LastUsedClause(ts)
    ELSE IF desc # <<>> THEN desc
    ELSE IF ts # <<>> THEN LastUsedClause(ts)
    ELSE <<>>

CacheItems == { it \in Elems(plan) \cup Elems(Printed) : it.item_type = "BuildCache" }

\* the build-cache entry an item was made from
EntryOf(it) ==
    CHOOSE e \in Elems(engine.buildCache) : ~e.InUse /\ short_id(e.ID) = it.item_id

\* C12: the description of the candidate of every build-cache entry not in
\* use is its description field and "Last used: <timestamp>" joined with
\* "; ", the "Last used" clause present only when the timestamp is
\* non-empty, the description part only when the description is non-empty.
C12_CacheDescription ==
    \A it \in CacheItems :
        it.description
          = ClaimedCacheInfo(EntryOf(it).Description, EntryOf(it).LastUsedAt)

\* the same, for the entries that have a last-used timestamp
C12_HoldsWithTimestamp ==
    \A it \in CacheItems :
        EntryOf(it).LastUsedAt # <<>> =>
            it.description
              = ClaimedCacheInfo(EntryOf(it).Description, EntryOf(it).LastUsedAt)

\* what the code gives an entry without timestamp: the clause with nothing
\* after it, joined to the description if there is one
C12_EmptyTimestampKeepsClause ==
    \A it \in CacheItems :
        EntryOf(it).LastUsedAt = <<>> =>
            it.description
              = (IF EntryOf(it).Description = <<>> THEN LastUsedClause(<<>>)
                 ELSE EntryOf(it).Description \o <<";", " ">> \o LastUsedClause(<<>>))

====
